---- MODULE Spec2Model ----
(***************************************************************************)
(* Model of cloud/amazon/ec2_asg_copy.py: copy_auto_scaling_group, the     *)
(* routine that copies an Auto Scaling group, its scaling policies and the *)
(* alarms named after it.  The state is the cloud account as seen through  *)
(* the autoscale and cloudwatch connections, module.params, the locals of  *)
(* copy_auto_scaling_group and its position (pc).  `calls` records every   *)
(* request sent to the provider, in order.                                 *)
(*                                                                         *)
(* The statement list is modelled as written: the outer `try:` of line 87  *)
(* has no handler, so only the BotoServerError handler of lines 145-146    *)
(* catches anything, and only for the statements of lines 117-144.         *)
(***************************************************************************)
EXTENDS Integers, Sequences, FiniteSets, TLC

VARIABLES
    params,           \* module.params
    asGroups,         \* groups listed by the autoscale endpoint, in listing order
    asPolicies,       \* scaling policies listed by the autoscale endpoint
    launchConfigs,    \* names of the launch configurations of the account
    cwAlarms,         \* alarms of the cloudwatch endpoint, one per alarm name
    account0,         \* the account before the call (history)
    pc,               \* position in copy_auto_scaling_group
    source_group, source_policies, launch_config, ag,
    as_group, asg_properties,
    idx,              \* position of the for loop of line 131 (1-based)
    alarm_name, alarm,
    result,           \* how the call ended
    calls             \* provider requests sent so far (history)

vars == <<params, asGroups, asPolicies, launchConfigs, cwAlarms, account0, pc,
          source_group, source_policies, launch_config, ag, as_group,
          asg_properties, idx, alarm_name, alarm, result, calls>>

-----------------------------------------------------------------------------
\* Bounds of the model.
MaxGroups == 2        \* groups in the account before the call
MaxPolicies == 2      \* scaling policies in the account before the call

\* Python's None: the value module.params.get gives for a key that is absent.
\* No resource of the model is named like it.
None == "None"

\* Truth value of a Python string-or-None in `x if v else y` (line 102).
Truthy(v) == v /= None /\ v /= ""

\* main, lines 154-158: the only keys main declares for the module (besides
\* the connection keys of ec2_argument_spec, which the copy does not read).
argument_spec == {"region", "source_asg_name", "name"}

\* module.params.get(key), lines 80-85: None for a key that is not there.
ParamsGet(p, key) == IF key \in DOMAIN p THEN p[key] ELSE None

-----------------------------------------------------------------------------
\* The names and values the account and the inputs are drawn from.
SourceName == "asg-prod"
NewName == "asg-new"
GroupNames == {SourceName, NewName}
LaunchConfigNames == {"lc-1", "lc-2"}

GroupAttrs ==
    { [launch_config_name |-> "lc-1",
       load_balancers |-> <<"elb-a">>,
       availability_zones |-> <<"us-east-1a", "us-east-1b">>,
       min_size |-> 2, max_size |-> 10, desired_capacity |-> 4,
       vpc_zone_identifier |-> "subnet-1",
       tags |-> <<"env=prod">>,
       health_check_period |-> 300, health_check_type |-> "ELB",
       default_cooldown |-> 300,
       termination_policies |-> <<"OldestInstance">>],
      [launch_config_name |-> "lc-2",
       load_balancers |-> <<>>,
       availability_zones |-> <<"us-east-1c">>,
       min_size |-> 1, max_size |-> 1, desired_capacity |-> 1,
       vpc_zone_identifier |-> None,
       tags |-> <<>>,
       health_check_period |-> 60, health_check_type |-> "EC2",
       default_cooldown |-> 120,
       termination_policies |-> <<"Default">>] }

Group(n, a) == [name |-> n] @@ a

Groups == { Group(n, a) : n \in GroupNames, a \in GroupAttrs }

\* The alarms named after the source group, dimensioned to it.
Alarm(n, g, action) ==
    [name |-> n, dimensions |-> [AutoScalingGroupName |-> g],
     alarm_actions |-> <<action>>]

AlarmPool ==
    { Alarm(SourceName \o "-ScaleUp", SourceName, "up"),
      Alarm(SourceName \o "-ScaleDown", SourceName, "down") }

\* Scaling policies of the source group before the call.
PolicyPool ==
    { [name |-> "up",   as_group |-> SourceName, scaling_adjustment |-> 10],
      [name |-> "down", as_group |-> SourceName, scaling_adjustment |-> -10],
      [name |-> "hold", as_group |-> SourceName, scaling_adjustment |-> 0] }

\* Rejections the provider can answer a create request with.
ProviderErrors == {"ValidationError", "LimitExceeded"}
AlreadyExists == "AlreadyExists"

SeqsUpTo(S, n) == UNION { [1..k -> S] : k \in 0..n }

Range(s) == { s[i] : i \in 1..Len(s) }

NoRepeat(s) == \A i, j \in 1..Len(s) : i /= j => s[i] /= s[j]

-----------------------------------------------------------------------------
\* module.params as main builds it (only the declared keys) and as a caller
\* of copy_auto_scaling_group can pass it (every key the function reads).
MainParams ==
    { p \in [region : {"us-east-1"}, source_asg_name : {SourceName},
             name : {NewName}] : DOMAIN p = argument_spec }

DirectParams ==
    [source_asg_name : {SourceName},
     group_name : GroupNames,
     launch_config_name : LaunchConfigNames \cup {None},
     load_balancers : {None, "elb-new"},
     wait_for_instances : BOOLEAN,
     wait_timeout : {300}]

\* Lines 80-85.
source_asg_name == ParamsGet(params, "source_asg_name")
group_name == ParamsGet(params, "group_name")
launch_config_name == ParamsGet(params, "launch_config_name")
load_balancers == ParamsGet(params, "launch_config_name")
wait_timeout == ParamsGet(params, "wait_timeout")
\* `wait_for_instances is True`, line 118 (an absent key gives None).
wait_for_instances_is_True ==
    "wait_for_instances" \in DOMAIN params /\ params["wait_for_instances"] = TRUE

-----------------------------------------------------------------------------
\* The provider's read requests.
GetAllGroups(groups, name) == SelectSeq(groups, LAMBDA g : g.name = name)

GetAllPolicies(policies, as_group_name) ==
    SelectSeq(policies, LAMBDA p : p.as_group = as_group_name)

GetAllLaunchConfigurations(lcs, name) ==
    IF name \in lcs THEN << [name |-> name] >> ELSE << >>

DescribeAlarms(alarms, name) ==
    IF \E a \in alarms : a.name = name
    THEN << CHOOSE a \in alarms : a.name = name >>
    ELSE << >>

\* The provider's write requests, once accepted.  A scaling policy is keyed by
\* group and policy name, an alarm by alarm name: a put under an existing key
\* replaces the resource.
PutGroup(groups, g) == Append(groups, g)

PutScalingPolicy(policies, p) ==
    Append(SelectSeq(policies,
                     LAMBDA q : ~(q.as_group = p.as_group /\ q.name = p.name)),
           p)

PutMetricAlarm(alarms, a) == { b \in alarms : b.name /= a.name } \cup {a}

\* str(e) of a BotoServerError, line 146.
Str(e) == "BotoServerError: " \o e

Call(op, arg, outcome) == [op |-> op, arg |-> arg, outcome |-> outcome]

Running == [kind |-> "running", value |-> None]

-----------------------------------------------------------------------------
Init ==
    /\ params \in MainParams \cup DirectParams
    /\ asGroups \in SeqsUpTo(Groups, MaxGroups)
    /\ asPolicies \in { s \in SeqsUpTo(PolicyPool, MaxPolicies) : NoRepeat(s) }
    /\ (asPolicies /= << >> => \E i \in 1..Len(asGroups) : asGroups[i].name = SourceName)
    /\ launchConfigs \in { {"lc-1"}, {"lc-1", "lc-2"} }
    /\ cwAlarms \in SUBSET AlarmPool
    /\ account0 = [asGroups |-> asGroups, asPolicies |-> asPolicies,
                   cwAlarms |-> cwAlarms]
    /\ pc = "start"
    /\ source_group = None /\ source_policies = << >> /\ launch_config = None
    /\ ag = None /\ as_group = None /\ asg_properties = None
    /\ idx = 1
    /\ alarm_name = None /\ alarm = None
    /\ result = Running
    /\ calls = << >>

-----------------------------------------------------------------------------
\* How the call ends.
\* module.fail_json(msg=...): prints the message and exits the process.
fail_json(msg) ==
    /\ result' = [kind |-> "fail_json", value |-> msg]
    /\ pc' = "done"

\* An exception no handler of the function catches (IndexError, NameError):
\* it leaves copy_auto_scaling_group and main, and the process ends with it.
raise(type) ==
    /\ result' = [kind |-> "exception", value |-> type]
    /\ pc' = "done"

\* A handler that leaves the failed request to be sent again.
except_retry(e) == UNCHANGED <<pc, result>>

\* Lines 145-146: the handler of the inner try.
except_BotoServerError(e) == fail_json(Str(e))

\* A guard that only refuses an empty listing.
SourceFound_any(groups) == Len(groups) >= 1

\* Line 91.
SourceFound(groups) == Len(groups) = 1

\* Lines 99-114: the group that is submitted.
AutoScalingGroup(name, lbs, src, lc) ==
    [name |-> name,
     load_balancers |-> IF Truthy(lbs) THEN <<lbs>> ELSE src.load_balancers,
     availability_zones |-> src.availability_zones,
     launch_config_name |-> lc.name,
     min_size |-> src.min_size,
     max_size |-> src.max_size,
     desired_capacity |-> src.desired_capacity,
     vpc_zone_identifier |-> src.vpc_zone_identifier,
     tags |-> src.tags,
     health_check_period |-> src.health_check_period,
     health_check_type |-> src.health_check_type,
     default_cooldown |-> src.default_cooldown,
     termination_policies |-> src.termination_policies]

\* get_properties(as_group), line 129: the group's attributes as a flat mapping.
get_properties(g) == [k \in DOMAIN g |-> g[k]]

\* A loop that forgets to re-point the policy.
RewritePolicy_keep(policy, g) == policy

\* Line 132.
RewritePolicy(policy, g) == [policy EXCEPT !.as_group = g.name]

\* A test that counts a zero adjustment as scaling up.
AlarmNameFor_nonneg(policy, source) ==
    IF policy.scaling_adjustment >= 0
    THEN source \o "-ScaleUp"
    ELSE source \o "-ScaleDown"

\* Lines 134-137.
AlarmNameFor(policy, source) ==
    IF policy.scaling_adjustment > 0
    THEN source \o "-ScaleUp"
    ELSE source \o "-ScaleDown"

\* A loop that forgets to re-point the alarm.
RewriteAlarm_keep(a, g) == a

\* Line 140.
RewriteAlarm(a, g) ==
    [a EXCEPT !.dimensions = [a.dimensions EXCEPT !.AutoScalingGroupName = g.name]]

locals == <<source_group, source_policies, launch_config, ag, as_group,
            asg_properties, idx, alarm_name, alarm>>
account == <<asGroups, asPolicies, launchConfigs, cwAlarms>>

-----------------------------------------------------------------------------
\* Lines 89-91 and 148-150: look the source group up.
get_source_group ==
    /\ pc = "start"
    /\ LET groups == GetAllGroups(asGroups, source_asg_name) IN
       /\ calls' = Append(calls, Call("get_all_groups", source_asg_name, Len(groups)))
       /\ IF SourceFound(groups)
          THEN /\ source_group' = groups[1]
               /\ pc' = "read_source"
               /\ UNCHANGED result
          ELSE /\ fail_json("Unable to find source group " \o source_asg_name)
               /\ UNCHANGED source_group
    /\ UNCHANGED <<params, account, account0, source_policies, launch_config, ag,
                   as_group, asg_properties, idx, alarm_name, alarm>>

\* Lines 93-114: read the source's policies and the launch configuration, and
\* build the new group.  Element 0 of an empty listing is an IndexError.
build_new_group ==
    /\ pc = "read_source"
    /\ LET policies == GetAllPolicies(asPolicies, source_asg_name)
           lcs == GetAllLaunchConfigurations(launchConfigs, launch_config_name)
       IN
       /\ source_policies' = policies
       /\ calls' = calls \o << Call("get_all_policies", source_asg_name, Len(policies)),
                               Call("get_all_launch_configurations",
                                    launch_config_name, Len(lcs)) >>
       /\ IF lcs = << >>
          THEN /\ raise("IndexError")
               /\ UNCHANGED <<launch_config, ag>>
          ELSE /\ launch_config' = lcs[1]
               /\ ag' = AutoScalingGroup(group_name, load_balancers,
                                         source_group, lcs[1])
               /\ pc' = "create_group"
               /\ UNCHANGED result
    /\ UNCHANGED <<params, account, account0, source_group, as_group,
                   asg_properties, idx, alarm_name, alarm>>

\* Line 117: submit the new group.  The provider rejects a name that is taken,
\* and may reject for any other reason.
create_auto_scaling_group ==
    /\ pc = "create_group"
    /\ \/ /\ GetAllGroups(asGroups, ag.name) = << >>
          /\ asGroups' = PutGroup(asGroups, ag)
          /\ calls' = Append(calls, Call("create_auto_scaling_group", ag, "ok"))
          /\ pc' = "created"
          /\ UNCHANGED result
       \/ \E e \in ProviderErrors \cup {AlreadyExists} :
          /\ e = AlreadyExists <=> GetAllGroups(asGroups, ag.name) /= << >>
          /\ calls' = Append(calls, Call("create_auto_scaling_group", ag, e))
          /\ except_BotoServerError(e)
          /\ UNCHANGED asGroups
    /\ UNCHANGED <<params, asPolicies, launchConfigs, cwAlarms, account0, locals>>

\* Lines 118-126, wait_for_instances is True: wait_for_new_inst, connection and
\* desired_capacity are names bound nowhere in the module; evaluating the call
\* raises NameError before any request is sent.
wait_for_new_inst ==
    /\ pc = "created"
    /\ wait_for_instances_is_True
    /\ raise("NameError")
    /\ UNCHANGED <<params, account, account0, locals, calls>>

\* Lines 128-129: fetch the new group and take its properties.
get_new_group ==
    /\ pc = "created"
    /\ ~wait_for_instances_is_True
    /\ LET groups == GetAllGroups(asGroups, group_name) IN
       /\ calls' = Append(calls, Call("get_all_groups", group_name, Len(groups)))
       /\ IF groups = << >>
          THEN /\ raise("IndexError")
               /\ UNCHANGED <<as_group, asg_properties>>
          ELSE /\ as_group' = groups[1]
               /\ asg_properties' = get_properties(groups[1])
               /\ pc' = "loop"
               /\ UNCHANGED result
    /\ UNCHANGED <<params, account, account0, source_group, source_policies,
                   launch_config, ag, idx, alarm_name, alarm>>

\* A loop that notes a rejected policy and goes on with its alarm.
create_scaling_policy_continue ==
    /\ pc = "loop"
    /\ idx <= Len(source_policies)
    /\ LET policy == [source_policies[idx] EXCEPT !.as_group = as_group.name] IN
       /\ source_policies' = [source_policies EXCEPT ![idx] = policy]
       /\ \/ /\ asPolicies' = PutScalingPolicy(asPolicies, policy)
             /\ calls' = Append(calls, Call("create_scaling_policy", policy, "ok"))
          \/ \E e \in ProviderErrors :
             /\ calls' = Append(calls, Call("create_scaling_policy", policy, e))
             /\ UNCHANGED asPolicies
       /\ pc' = "describe_alarms"
       /\ UNCHANGED result
    /\ UNCHANGED <<params, asGroups, launchConfigs, cwAlarms, account0,
                   source_group, launch_config, ag, as_group, asg_properties,
                   idx, alarm_name, alarm>>

\* Lines 131-133: the next policy of the loop, pointed at the new group and
\* submitted.  The assignment changes the element of source_policies itself.
create_scaling_policy ==
    /\ pc = "loop"
    /\ idx <= Len(source_policies)
    /\ LET policy == RewritePolicy(source_policies[idx], as_group) IN
       /\ source_policies' = [source_policies EXCEPT ![idx] = policy]
       /\ \/ /\ asPolicies' = PutScalingPolicy(asPolicies, policy)
             /\ calls' = Append(calls, Call("create_scaling_policy", policy, "ok"))
             /\ pc' = "describe_alarms"
             /\ UNCHANGED result
          \/ \E e \in ProviderErrors :
             /\ calls' = Append(calls, Call("create_scaling_policy", policy, e))
             /\ except_BotoServerError(e)
             /\ UNCHANGED asPolicies
    /\ UNCHANGED <<params, asGroups, launchConfigs, cwAlarms, account0,
                   source_group, launch_config, ag, as_group, asg_properties,
                   idx, alarm_name, alarm>>

\* Lines 134-139: name the alarm after the source group and fetch it.
describe_alarms ==
    /\ pc = "describe_alarms"
    /\ LET name == AlarmNameFor(source_policies[idx], source_asg_name)
           alarms == DescribeAlarms(cwAlarms, name)
       IN
       /\ alarm_name' = name
       /\ calls' = Append(calls, Call("describe_alarms", name, Len(alarms)))
       /\ IF alarms = << >>
          THEN /\ raise("IndexError")
               /\ UNCHANGED alarm
          ELSE /\ alarm' = alarms[1]
               /\ pc' = "create_alarm"
               /\ UNCHANGED result
    /\ UNCHANGED <<params, account, account0, source_group, source_policies,
                   launch_config, ag, as_group, asg_properties, idx>>

\* Lines 140-141: point the alarm at the new group and submit it; then the
\* loop goes on with the next policy.
create_alarm ==
    /\ pc = "create_alarm"
    /\ LET a == RewriteAlarm(alarm, as_group) IN
       /\ alarm' = a
       /\ \/ /\ cwAlarms' = PutMetricAlarm(cwAlarms, a)
             /\ calls' = Append(calls, Call("create_alarm", a, "ok"))
             /\ idx' = idx + 1
             /\ pc' = "loop"
             /\ UNCHANGED result
          \/ \E e \in ProviderErrors :
             /\ calls' = Append(calls, Call("create_alarm", a, e))
             /\ except_BotoServerError(e)
             /\ UNCHANGED <<cwAlarms, idx>>
    /\ UNCHANGED <<params, asGroups, asPolicies, launchConfigs, account0,
                   source_group, source_policies, launch_config, ag, as_group,
                   asg_properties, alarm_name>>

\* Lines 143-144: the loop is over.
return_properties ==
    /\ pc = "loop"
    /\ idx > Len(source_policies)
    /\ result' = [kind |-> "return", value |-> <<TRUE, asg_properties>>]
    /\ pc' = "done"
    /\ UNCHANGED <<params, account, account0, locals, calls>>

Next ==
    \/ get_source_group
    \/ build_new_group
    \/ create_auto_scaling_group
    \/ wait_for_new_inst
    \/ get_new_group
    \/ create_scaling_policy
    \/ describe_alarms
    \/ create_alarm
    \/ return_properties

Spec == Init /\ [][Next]_vars

-----------------------------------------------------------------------------
\* Vocabulary of the properties.
CreateOps == {"create_auto_scaling_group", "create_scaling_policy", "create_alarm"}

CallIdx == 1..Len(calls)

\* How many groups of the account carried the source name before the call.
SourceMatches == Len(GetAllGroups(account0.asGroups, source_asg_name))

GroupCreated ==
    \E i \in CallIdx : /\ calls[i].op = "create_auto_scaling_group"
                       /\ calls[i].outcome = "ok"

\* A request of the policy loop that failed.
FailedLoopCall(c) ==
    \/ c.op \in {"create_scaling_policy", "create_alarm"} /\ c.outcome /= "ok"
    \/ c.op = "describe_alarms" /\ c.outcome /= 1

-----------------------------------------------------------------------------
\* C1: when the source name matches zero or several groups, the call ends in
\* fail_json "Unable to find source group ..." and no create request (group,
\* policy, alarm) is ever sent.
C1_SourceNotFound ==
    SourceMatches /= 1 =>
        /\ \A i \in CallIdx : calls[i].op \notin CreateOps
        /\ pc \in {"start", "done"}
        /\ pc = "done" =>
               result = [kind |-> "fail_json",
                         value |-> "Unable to find source group " \o source_asg_name]

C1_Witness ==
    /\ SourceMatches >= 2
    /\ pc = "done"
    /\ result.kind = "fail_json"

\* C2: when the provider rejects create_auto_scaling_group, the call ends in
\* fail_json with the provider's message and no create_scaling_policy or
\* create_alarm request is sent, however many policies the source has.
C2_GroupRejected ==
    \A i \in CallIdx :
        (calls[i].op = "create_auto_scaling_group" /\ calls[i].outcome /= "ok") =>
            /\ pc = "done"
            /\ result = [kind |-> "fail_json",
                         value |-> "BotoServerError: " \o calls[i].outcome]
            /\ i = Len(calls)
            /\ \A j \in CallIdx :
                   calls[j].op \notin {"create_scaling_policy", "create_alarm"}

C2_Witness ==
    /\ pc = "done"
    /\ Len(source_policies) = MaxPolicies
    /\ calls[Len(calls)].op = "create_auto_scaling_group"
    /\ calls[Len(calls)].outcome = "LimitExceeded"

\* C3: no policy is ever submitted with the source group as its group, every
\* submitted policy names the new group, and after a successful copy every
\* policy of the source has a counterpart in the new group.
C3_PoliciesRepointed ==
    /\ \A i \in CallIdx :
           calls[i].op = "create_scaling_policy" =>
               /\ calls[i].arg.as_group = group_name
               /\ calls[i].arg.as_group /= source_asg_name
    /\ result.kind = "return" =>
           \A p \in Range(GetAllPolicies(account0.asPolicies, source_asg_name)) :
               [p EXCEPT !.as_group = group_name] \in Range(asPolicies)

C3_Witness ==
    /\ result.kind = "return"
    /\ Len(source_policies) = MaxPolicies

\* C4: every alarm submitted to create_alarm has the new group's name, and not
\* the source group's, as its AutoScalingGroupName dimension.
C4_AlarmsRepointed ==
    \A i \in CallIdx :
        calls[i].op = "create_alarm" =>
            /\ calls[i].arg.dimensions.AutoScalingGroupName = group_name
            /\ calls[i].arg.dimensions.AutoScalingGroupName /= source_asg_name

C4_Witness ==
    \E i \in CallIdx : calls[i].op = "create_alarm" /\ calls[i].outcome = "ok"

\* C5: the alarm looked up after a policy is created is <source>-ScaleUp when
\* the policy's adjustment is strictly positive and <source>-ScaleDown for a
\* zero or negative one, <source> being the source group's name.
C5_AlarmName ==
    /\ \A i \in CallIdx :
           calls[i].op = "describe_alarms" =>
               /\ i > 1
               /\ calls[i - 1].op = "create_scaling_policy"
               /\ calls[i - 1].outcome = "ok"
               /\ calls[i].arg =
                      IF calls[i - 1].arg.scaling_adjustment > 0
                      THEN source_asg_name \o "-ScaleUp"
                      ELSE source_asg_name \o "-ScaleDown"
    /\ \A i \in CallIdx :
           (calls[i].op = "create_scaling_policy" /\ calls[i].outcome = "ok"
               /\ i < Len(calls)) =>
               calls[i + 1].op = "describe_alarms"

C5_Witness ==
    \E i \in CallIdx :
        /\ calls[i].op = "describe_alarms"
        /\ calls[i].arg = "asg-prod-ScaleDown"
        /\ calls[i - 1].arg.scaling_adjustment = 0

\* C6: with no load_balancers override, the submitted group has the source
\* group's load balancers, whatever the launch configuration name.
C6_InheritLoadBalancers ==
    ParamsGet(params, "load_balancers") = None =>
        \A i \in CallIdx :
            calls[i].op = "create_auto_scaling_group" =>
                calls[i].arg.load_balancers = source_group.load_balancers

\* C7: the submitted group equals the source group in capacities, zones,
\* health check, cooldown and termination policies, and differs only in its
\* name, its launch configuration and, when overridden, its load balancers.
C7_AttributesCopied ==
    \A i \in CallIdx :
        calls[i].op = "create_auto_scaling_group" =>
            LET g == calls[i].arg
                s == source_group
                lbs == ParamsGet(params, "load_balancers")
            IN  /\ g.min_size = s.min_size
                /\ g.max_size = s.max_size
                /\ g.desired_capacity = s.desired_capacity
                /\ g.availability_zones = s.availability_zones
                /\ g.health_check_period = s.health_check_period
                /\ g.health_check_type = s.health_check_type
                /\ g.default_cooldown = s.default_cooldown
                /\ g.termination_policies = s.termination_policies
                /\ g.name = group_name
                /\ g.launch_config_name = launch_config_name
                /\ g.load_balancers =
                       IF lbs = None THEN s.load_balancers ELSE <<lbs>>

\* C8: with wait_for_instances true and the group created, the call ends with
\* the new group's properties or with a TimeoutError.
C8_WaitEnds ==
    (wait_for_instances_is_True /\ GroupCreated /\ pc = "done") =>
        \/ result.kind = "return"
        \/ result = [kind |-> "exception", value |-> "TimeoutError"]

\* C9: a failed request of the policy loop is the last request sent: the call
\* is over with an error, nothing is sent again, and every group, policy and
\* alarm accepted before it is still in the account.
C9_LoopFailureAborts ==
    \A i \in CallIdx :
        FailedLoopCall(calls[i]) =>
            /\ i = Len(calls)
            /\ pc = "done"
            /\ result.kind \in {"fail_json", "exception"}
            /\ \A j \in 1..(i - 1) :
                   /\ (calls[j].op = "create_auto_scaling_group"
                          /\ calls[j].outcome = "ok")
                        => calls[j].arg \in Range(asGroups)
                   /\ (calls[j].op = "create_scaling_policy"
                          /\ calls[j].outcome = "ok")
                        => calls[j].arg \in Range(asPolicies)
                   /\ (calls[j].op = "create_alarm" /\ calls[j].outcome = "ok")
                        => calls[j].arg \in cwAlarms
            /\ Len(asGroups) = Len(account0.asGroups) + 1

C9_Witness ==
    /\ pc = "done"
    /\ idx = 2
    /\ FailedLoopCall(calls[Len(calls)])
    /\ calls[Len(calls)].op = "create_alarm"

\* C10: the source group, its policies and the alarms named after it are in
\* the account after the call exactly as they were before it.
C10_SourceUntouched ==
    /\ \A i \in 1..Len(account0.asGroups) : asGroups[i] = account0.asGroups[i]
    /\ \A p \in Range(account0.asPolicies) : p \in Range(asPolicies)
    /\ \A a \in account0.cwAlarms : a \in cwAlarms

====
